---- MODULE Spec2Model ----
(***************************************************************************)
(* Model of the online-filtering host application (gui crate): the port    *)
(* selection screen, the handshake, the transmitter/receiver worker pair,  *)
(* the cancellation token, the shared output buffer, the Filter message    *)
(* handlers and the graph window computation.                              *)
(***************************************************************************)
EXTENDS Integers, Sequences, FiniteSets, TLC

\* ---------------------------------------------------------------- bounds

\* Longest input series and longest time vector (each ranges over 0..MaxN).
MaxN == 2
\* Most frames the device delivers to the receiver in one session.
MaxReads == 2
\* Largest buffer length explored by the window computation.
MaxTotal == 6

\* ------------------------------------------------------ program constants

\* main.rs: MIN_WINDOW_SIZE
MIN_WINDOW_SIZE == 32
\* main.rs: STREAMING_WINDOW_SIZE
STREAMING_WINDOW_SIZE == 384
\* main.rs: EOT bit pattern 0x7FC00000 (quiet NaN)
EOT_BITS == 2143289344

\* f32::to_le_bytes / u32::to_le_bytes on a 32-bit pattern.
to_le_bytes(bits) ==
    << bits % 256,
       (bits \div 256) % 256,
       (bits \div 65536) % 256,
       (bits \div 16777216) % 256 >>

\* f32::from_le_bytes: the bit pattern of the decoded float.
from_le_bytes(b) == b[1] + 256 * b[2] + 65536 * b[3] + 16777216 * b[4]

\* main.rs: EOT, the four sentinel bytes.
EOT == to_le_bytes(EOT_BITS)

\* Bit patterns of the f32 samples the waveform evaluator may return:
\* 1.0 and NaN (0x3F800000, 0x7FC00000).
Samples == {1065353216, EOT_BITS}

\* Frames the device may put on the link: two floats (1.0, 0.5) and the sentinel.
DeviceFrames == {to_le_bytes(1065353216), to_le_bytes(1056964608), EOT}

\* Series compute_tensors can return for the function: f.extract() takes any
\* sequence of floats, the empty one included, up to MaxN samples.
Inputs == UNION {[1..n -> Samples] : n \in 0..MaxN}

\* Time vectors compute_tensors can return: np.arange(0, stop_time,
\* sampling_interval), counted in sampling intervals. Its length is fixed by
\* stop_time and the device's frequency, not by the function.
TimeVectors == {[i \in 1..n |-> i - 1] : n \in 0..MaxN}

\* usize::MAX. The largest integer of the model stands for it: a usize ranges
\* over 0..USIZE_MAX and usize arithmetic wraps modulo USIZE_MAX + 1.
USIZE_MAX == 2147483647

\* Values a slider built over lo..=hi can publish (either orientation).
SliderChoices == {1, MIN_WINDOW_SIZE, USIZE_MAX}

\* Names of the serial ports a scan may list.
PortNames == {"ttyA", "ttyB"}

\* serialport::available_ports().unwrap_or_default() (ports.rs line 55): the
\* ports a scan lists, in the order listed; none when the scan fails.
Scans ==
    {<< >>} \cup {<< a >> : a \in PortNames}
            \cup {s \in [1..2 -> PortNames] : s[1] # s[2]}

\* Indices PortSelected can carry: those of the radios of a full list.
PortIndices == 0..(Cardinality(PortNames) - 1)

\* Ends of the stop time slider (1.0 s and 30.0 s).
StopTimes == {1, 30}

VARIABLES
    app_state,          \* app.rs State: "Ports" | "Filter"
    ports,              \* ports.rs Ports: validated, stop_time, selected_port, available_ports
    state,              \* filter.rs State: "Connecting" | "Connected" | "Errored" ("none": no Filter)
    handshake,          \* the handshake task of Filter::new and its pending result
    unfiltered_data,    \* input series (f32 bit patterns)
    time,               \* graph.rs Graph.time: the time vector
    filtered_data,      \* output buffer (f32 bit patterns)
    cancellation_token, \* "absent" | "false" | "true"
    receiver,           \* Option<JoinHandle>: "Some" | "None"
    transmitter,        \* Option<JoinHandle>: "Some" | "None"
    mode,               \* graph.rs Mode
    tx_pc,              \* transmitter thread position
    tx_i,               \* samples the transmitter loop has consumed
    tx_loaded,          \* values returned by token.load, in order
    tx_log,             \* write_all calls of the transmitter, in order
    rx_pc,              \* receiver thread position
    rx_log,             \* frames read_exact returned to the receiver, in order
    ui,                 \* position of the UI thread inside a blocking handler
    queued,             \* a Refresh tick produced by the subscription, not yet handled
    ports_queued,       \* a RefreshPorts tick of the port screen's timer, not yet handled
    pending,            \* a widget message of the previous view, not yet handled
    ticking,            \* whether the runtime currently runs the Refresh subscription
    join_calls,         \* number of join() calls made on each worker
    exported,           \* what this session's Export calls left in the file
    reported,           \* what this session's last Export call logged
    crashed,            \* the application panicked
    w_in,               \* build_chart called alone: mode and buffer length
    w_out               \* build_chart called alone: what it computed

vars == << app_state, ports, state, handshake, unfiltered_data, time,
           filtered_data, cancellation_token, receiver, transmitter, mode, tx_pc,
           tx_i, tx_loaded, tx_log, rx_pc, rx_log, ui, queued, ports_queued,
           pending, ticking, join_calls, exported, reported, crashed, w_in, w_out >>

session_vars == << unfiltered_data, time, filtered_data, cancellation_token, receiver,
                   transmitter, mode >>
tx_vars == << tx_pc, tx_i, tx_loaded, tx_log >>
rx_vars == << rx_pc, rx_log >>
w_vars == << w_in, w_out >>
export_vars == << exported, reported >>

N == Len(unfiltered_data)

\* ------------------------------------------------------------ graph.rs

Streaming == [tag |-> "Streaming", size |-> 0, offset |-> 0]
Static(size, offset) == [tag |-> "Static", size |-> size, offset |-> offset]

Min(a, b) == IF a <= b THEN a ELSE b
Max(a, b) == IF a >= b THEN a ELSE b

\* a + b does not fit a usize.
add_overflows(a, b) == a > USIZE_MAX - b

\* usize addition without overflow checks: the sum modulo USIZE_MAX + 1.
wrapping_add(a, b) ==
    IF add_overflows(a, b) THEN (a - (USIZE_MAX - b)) - 1 ELSE a + b

\* usize subtraction without overflow checks: the difference modulo
\* USIZE_MAX + 1.
wrapping_sub(a, b) ==
    IF a >= b THEN a - b ELSE (USIZE_MAX - (b - a)) + 1

\* Graph::build_chart, line 192: start + size overflows; a build with
\* overflow checks panics there.
build_chart_overflows(m, total_samples) ==
    m.tag = "Static" /\ add_overflows(Min(total_samples, m.offset), m.size)

\* Graph::build_chart, lines 184-194: the (start, end) pair of the window of
\* a non-empty buffer, the sum of line 192 wrapping as in a build without
\* overflow checks.
build_chart_window(m, total_samples) ==
    IF m.tag = "Streaming"
    THEN [start |-> total_samples - Min(total_samples, STREAMING_WINDOW_SIZE),
          end   |-> total_samples - 1]
    ELSE LET start == Min(total_samples, m.offset)
         IN  [start |-> start,
              end   |-> Min(wrapping_add(start, m.size), total_samples - 1)]

\* Variant of switch_mode: the static parameters are kept across Streaming.
switch_mode_remember(m) ==
    IF m.tag = "Streaming"
    THEN [tag |-> "Static", size |-> m.size, offset |-> m.offset]
    ELSE [m EXCEPT !.tag = "Streaming"]

\* Graph::update, Message::SwitchMode.
switch_mode(m) ==
    IF m.tag = "Streaming" THEN Static(MIN_WINDOW_SIZE, 0) ELSE Streaming

\* Slider values published for a slider built over lo..=hi.
SliderValues(lo, hi) == {v \in SliderChoices : Min(lo, hi) <= v /\ v <= Max(lo, hi)}

\* ------------------------------------------------------------ ports.rs

\* Ports::new: nothing validated, stop time 1.0, no port selected, no port
\* listed. selected_port is << >> for None and << i >> for Some(i).
PortsNew ==
    [validated |-> FALSE, stop_time |-> 1, selected_port |-> << >>,
     available_ports |-> << >>]

\* State::Filter: the Ports value has been dropped.
NoPorts ==
    [validated |-> FALSE, stop_time |-> 0, selected_port |-> << >>,
     available_ports |-> << >>]

\* Vec::contains
contains(seq, x) == \E j \in 1..Len(seq) : seq[j] = x

\* Ports::update_ports, lines 186-206: an empty scan clears the list and the
\* selection; otherwise the selection is dropped when the port it points at
\* is not in the scan, and the ports not yet listed are appended.
update_ports(p, scan) ==
    IF scan = << >>
    THEN [p EXCEPT !.selected_port = << >>, !.available_ports = << >>]
    ELSE LET port_disconnected ==
                 /\ p.selected_port # << >>
                 /\ p.selected_port[1] < Len(p.available_ports)
                 /\ ~contains(scan, p.available_ports[p.selected_port[1] + 1])
             retained == SelectSeq(scan, LAMBDA x : ~contains(p.available_ports, x))
         IN  [p EXCEPT !.selected_port = IF port_disconnected THEN << >> ELSE @,
                       !.available_ports = @ \o retained]

\* Message::Filter, lines 82-85: selected_port.expect("selected port")
\* panics on None and available_ports[i] on an index past the list.
ports_filter_panics(p) ==
    \/ p.selected_port = << >>
    \/ p.selected_port[1] >= Len(p.available_ports)

\* ------------------------------------------------------------ messages
\* The runtime hands update the messages of one batch in order and builds
\* the view again only after the batch: a widget message produced from the
\* view on screen can be handled after another message of its batch has
\* changed the state the view was built from.

\* A message of ports::Message or filter::Message; i is the index carried
\* by PortSelected.
Msg(name) == [msg |-> name, i |-> 0]
PortSelectedMsg(i) == [msg |-> "PortSelected", i |-> i]
NoMessage == Msg("none")

\* ports::Message, lines 15-22.
PortsMessages ==
    {"RefreshPorts", "PortSelected", "StopTimeUpdated", "FunctionUpdated",
     "EvaluateFunction", "Filter"}

\* app.rs Message: the screen a message belongs to.
Screen(m) == IF m.msg \in PortsMessages THEN "Ports" ELSE "Filter"

\* Ports::view: the messages its widgets publish. A radio per listed port,
\* the stop time slider, the text input and "Accept", "Refresh", and "Start
\* filtering" once a port is selected and the function validated.
ports_view(p) ==
    {PortSelectedMsg(i - 1) : i \in 1..Len(p.available_ports)}
      \cup {Msg("StopTimeUpdated"), Msg("FunctionUpdated"), Msg("EvaluateFunction"),
            Msg("RefreshPorts")}
      \cup (IF p.selected_port # << >> /\ p.validated THEN {Msg("Filter")} ELSE {})

\* Filter::view and Graph::view: the messages their widgets publish. "Ok"
\* and the mode button in Connected, "Export" once the receiver handle is
\* None, the two sliders in Static mode; "Ok" in Errored; nothing while
\* Connecting.
filter_view(st, rx, m) ==
    IF st = "Connected"
    THEN {Msg("Finish"), Msg("SwitchMode")}
           \cup (IF rx = "None" THEN {Msg("Export")} ELSE {})
           \cup (IF m.tag = "Static"
                 THEN {Msg("SizeUpdated"), Msg("OffsetUpdated")} ELSE {})
    ELSE IF st = "Errored" THEN {Msg("Finish")}
    ELSE {}

\* ----------------------------------------------------------- filter.rs
\* The runtime delivers queued messages in the order they were published. A
\* RefreshPorts tick still queued when StartFiltering replaces the port
\* screen was published before the handshake task was started: it is
\* delivered before the filter screen's buttons, sliders and Refresh ticks,
\* which come later, hence the ~ports_queued guards of those handlers. Back
\* on the port screen the order is the other way round: a Refresh tick still
\* queued there is older than any RefreshPorts tick of the new screen.

\* Variant of subscription: the tick runs in every Connected session.
subscription_connected(st, rx, tx) == st = "Connected"

\* Filter::subscription: the Refresh tick runs iff Connected with both handles.
subscription(st, rx, tx) == st = "Connected" /\ rx = "Some" /\ tx = "Some"

\* OnlineFiltering::view: the messages of the view of the current state.
ViewMessages ==
    IF app_state = "Ports" THEN ports_view(ports)
    ELSE filter_view(state, receiver, mode)

\* Message m is handed to update: published by the view on screen, or left
\* from the previous view by the batch it came in.
Delivered(m) == IF pending = NoMessage THEN m \in ViewMessages ELSE pending = m

\* What follows the handled message in its batch: nothing, or a message of
\* the view the batch was produced from that the view of the new state no
\* longer offers (one the new view offers is handled as a fresh one).
StaleAfter(before, after) ==
    IF pending = NoMessage THEN {NoMessage} \cup (before \ after) ELSE {NoMessage}

Init ==
    /\ app_state = "Ports"
    /\ ports = PortsNew
    /\ state = "none"
    /\ handshake = "none"
    /\ unfiltered_data = << >>
    /\ time = << >>
    /\ filtered_data = << >>
    /\ cancellation_token = "absent"
    /\ receiver = "None"
    /\ transmitter = "None"
    /\ mode = Streaming
    /\ tx_pc = "unspawned"
    /\ tx_i = 0
    /\ tx_loaded = << >>
    /\ tx_log = << >>
    /\ rx_pc = "unspawned"
    /\ rx_log = << >>
    /\ ui = "idle"
    /\ queued = FALSE
    /\ ports_queued = FALSE
    /\ pending = NoMessage
    /\ ticking = FALSE
    /\ join_calls = [tx |-> 0, rx |-> 0]
    /\ exported = << >>
    /\ reported = "none"
    /\ crashed = FALSE
    /\ w_in = [mode |-> Streaming, total |-> 0]
    /\ w_out = [status |-> "pending", start |-> 0, end |-> 0]

\* ------------------------------------------------- port selection screen
\* A Refresh tick still queued when the application returns to this screen
\* is delivered before the screen's next event, hence the ~queued guards.

\* Ports::subscription, lines 180-184, and the "Refresh" button of
\* Ports::view: the port screen's 3 s timer, or the button, publishes a
\* RefreshPorts message while the port screen is shown.
PortsTick ==
    /\ app_state = "Ports" /\ ~ports_queued /\ ~crashed
    /\ ports_queued' = TRUE
    /\ UNCHANGED << app_state, ports, state, handshake, session_vars, tx_vars,
                    rx_vars, ui, queued, pending, ticking, join_calls, export_vars,
                    crashed, w_vars >>

\* Ports::update, Message::PortSelected(i): the index is stored as it comes.
PortSelected ==
    /\ app_state = "Ports" /\ ui = "idle" /\ ~crashed /\ ~queued
    /\ \E i \in PortIndices :
         /\ Delivered(PortSelectedMsg(i))
         /\ ports' = [ports EXCEPT !.selected_port = << i >>]
    /\ pending' \in StaleAfter(ViewMessages, ports_view(ports'))
    /\ UNCHANGED << app_state, state, handshake, session_vars, tx_vars, rx_vars,
                    ui, queued, ports_queued, ticking, join_calls, export_vars,
                    crashed, w_vars >>

\* Ports::update, Message::StopTimeUpdated(t).
StopTimeUpdated ==
    /\ app_state = "Ports" /\ ui = "idle" /\ ~crashed /\ ~queued
    /\ Delivered(Msg("StopTimeUpdated"))
    /\ \E t \in StopTimes : ports' = [ports EXCEPT !.stop_time = t]
    /\ pending' \in StaleAfter(ViewMessages, ports_view(ports'))
    /\ UNCHANGED << app_state, state, handshake, session_vars, tx_vars, rx_vars,
                    ui, queued, ports_queued, ticking, join_calls, export_vars,
                    crashed, w_vars >>

\* Ports::update, Message::FunctionUpdated.
FunctionUpdated ==
    /\ app_state = "Ports" /\ ui = "idle" /\ ~crashed /\ ~queued
    /\ Delivered(Msg("FunctionUpdated"))
    /\ ports' = [ports EXCEPT !.validated = FALSE]
    /\ pending' \in StaleAfter(ViewMessages, ports_view(ports'))
    /\ UNCHANGED << app_state, state, handshake, session_vars, tx_vars, rx_vars,
                    ui, queued, ports_queued, ticking, join_calls, export_vars,
                    crashed, w_vars >>

\* Ports::update, Message::EvaluateFunction: validate() succeeds or fails.
EvaluateFunction ==
    /\ app_state = "Ports" /\ ui = "idle" /\ ~crashed /\ ~queued
    /\ Delivered(Msg("EvaluateFunction"))
    /\ \E ok \in BOOLEAN : ports' = [ports EXCEPT !.validated = ok]
    /\ pending' \in StaleAfter(ViewMessages, ports_view(ports'))
    /\ UNCHANGED << app_state, state, handshake, session_vars, tx_vars, rx_vars,
                    ui, queued, ports_queued, ticking, join_calls, export_vars,
                    crashed, w_vars >>

\* Ports::update, Message::RefreshPorts (and the dispatch of app.rs): a queued
\* RefreshPorts is delivered. On the port screen update_ports takes the
\* result of a scan; once StartFiltering has replaced the screen by a Filter
\* the message hits unreachable!() (app.rs line 57).
RefreshPorts ==
    /\ ports_queued /\ ui = "idle" /\ ~crashed /\ pending = NoMessage
    /\ app_state = "Ports" => ~queued
    /\ ports_queued' = FALSE
    /\ IF app_state = "Ports"
       THEN /\ \E scan \in Scans : ports' = update_ports(ports, scan)
            /\ pending' \in StaleAfter(ViewMessages, ports_view(ports'))
            /\ UNCHANGED crashed
       ELSE /\ crashed' = TRUE
            /\ UNCHANGED << ports, pending >>
    /\ UNCHANGED << app_state, state, handshake, session_vars, tx_vars, rx_vars,
                    ui, queued, ticking, join_calls, export_vars, w_vars >>

\* Ports::update, Message::Filter (offered when a port is selected and the
\* function validated): the expect of line 82 and the index of line 85, then
\* Filter::new: Connecting, handshake task started, the Ports value dropped.
StartFiltering ==
    /\ app_state = "Ports" /\ ui = "idle" /\ ~crashed /\ ~queued
    /\ Delivered(Msg("Filter"))
    /\ IF ports_filter_panics(ports)
       THEN /\ crashed' = TRUE
            /\ UNCHANGED << app_state, ports, state, handshake, tx_vars, rx_vars,
                            join_calls, pending >>
       ELSE /\ app_state' = "Filter"
            /\ ports' = NoPorts
            /\ state' = "Connecting"
            /\ handshake' = "running"
            /\ tx_pc' = "unspawned" /\ tx_i' = 0 /\ tx_loaded' = << >> /\ tx_log' = << >>
            /\ rx_pc' = "unspawned" /\ rx_log' = << >>
            /\ join_calls' = [tx |-> 0, rx |-> 0]
            /\ pending' \in StaleAfter(ViewMessages,
                                       filter_view("Connecting", "None", Streaming))
            /\ UNCHANGED crashed
    /\ UNCHANGED << session_vars, ui, queued, ports_queued, ticking, export_vars,
                    w_vars >>

\* OnlineFiltering::update, line 57: a widget message of the screen that a
\* message handled before it has replaced.
UpdateUnreachable ==
    /\ pending # NoMessage /\ ui = "idle" /\ ~crashed
    /\ Screen(pending) # app_state
    /\ crashed' = TRUE
    /\ UNCHANGED << app_state, ports, state, handshake, session_vars, tx_vars,
                    rx_vars, ui, queued, ports_queued, pending, ticking, join_calls,
                    export_vars, w_vars >>

\* ---------------------------------------------------------- handshake

\* Outcomes of the blocking task of Filter::new: success, or a failure at
\* open_native, write_all(SYN), read_exact (error or timeout), set_timeout.
HandshakeOutcomes == {"ok", "open_err", "write_err", "read_err", "read_timeout",
                      "set_timeout_err"}

\* Filter::new, lines 72-93: the task runs once and resolves.
HandshakeTask ==
    /\ handshake = "running" /\ ~crashed
    /\ \E outcome \in HandshakeOutcomes : handshake' = outcome
    /\ UNCHANGED << app_state, ports, state, session_vars, tx_vars, rx_vars, ui,
                    queued, ports_queued, pending, ticking, join_calls, export_vars, crashed, w_vars >>

\* Variant of connection_failed_state: the failure is ignored.
connection_failed_ignored == "Connecting"

\* State after Message::ConnectionFailed.
connection_failed_state == "Errored"

\* Filter::update, Message::ConnectionFailed.
ConnectionFailed ==
    /\ app_state = "Filter" /\ ui = "idle" /\ ~crashed /\ pending = NoMessage
    /\ handshake \in HandshakeOutcomes \ {"ok"}
    /\ handshake' = "none"
    /\ state' = connection_failed_state
    /\ ticking' = subscription(state', receiver, transmitter)
    /\ UNCHANGED << app_state, ports, session_vars, tx_vars, rx_vars, ui, queued, ports_queued, pending,
                    join_calls, export_vars, crashed, w_vars >>

\* Variant of token_new: the flag is created set.
token_new_set == "true"

\* AtomicBool::new(false), line 135.
token_new == "false"

\* What the fallible calls of the ConnectionEstablished handler can do:
\* try_clone_native fails (line 130, expect "successful split"), the
\* evaluator fails on the time vector or on the function or the results are
\* not sequences of floats (compute_tensors, line 342, expect "vectors"), or
\* both succeed.
ConnectionEstablishedOutcomes == {"ok", "clone_err", "vectors_err"}

\* Filter::update, Message::ConnectionEstablished: try_clone_native,
\* compute_tensors, token, spawn_receiver, spawn_transmitter, Graph::new,
\* State::Connected. A failed expect panics before anything is spawned.
ConnectionEstablished ==
    /\ app_state = "Filter" /\ ui = "idle" /\ ~crashed /\ pending = NoMessage
    /\ handshake = "ok"
    /\ state = "Connecting"
    /\ handshake' = "none"
    /\ \E outcome \in ConnectionEstablishedOutcomes :
         IF outcome = "ok"
         THEN /\ \E data \in Inputs : unfiltered_data' = data
              /\ \E t \in TimeVectors : time' = t
              /\ cancellation_token' = token_new
              /\ filtered_data' = << >>
              /\ rx_pc' = "read" /\ rx_log' = << >>
              /\ tx_pc' = "check" /\ tx_i' = 0 /\ tx_loaded' = << >> /\ tx_log' = << >>
              /\ mode' = Streaming
              /\ receiver' = "Some"
              /\ transmitter' = "Some"
              /\ state' = "Connected"
              /\ ticking' = subscription(state', receiver', transmitter')
              /\ UNCHANGED crashed
         ELSE /\ crashed' = TRUE
              /\ UNCHANGED << state, session_vars, tx_vars, rx_vars, ticking >>
    /\ UNCHANGED << app_state, ports, ui, queued, ports_queued, pending, join_calls,
                    export_vars, w_vars >>

\* ----------------------------------------------------------- workers.rs

\* Variant of transmitter_loop: the first sample is written before any check.
transmitter_loop_late(i, n, cancelled) ==
    IF i = n THEN "eot"
    ELSE IF cancelled /\ i > 0 THEN "eot" ELSE "write"

\* transmitter, lines 34-38: where the loop goes next, given the index, the
\* series length and the value token.load returned.
transmitter_loop(i, n, cancelled) ==
    IF i = n THEN "eot"
    ELSE IF cancelled THEN "eot" ELSE "write"

\* transmitter: iterator step and cancellation check of one loop iteration.
TxCheck ==
    /\ tx_pc = "check" /\ ~crashed
    /\ tx_pc' = transmitter_loop(tx_i, N, cancellation_token = "true")
    /\ tx_loaded' = IF tx_i < N
                    THEN Append(tx_loaded, cancellation_token = "true")
                    ELSE tx_loaded
    /\ UNCHANGED << app_state, ports, state, handshake, session_vars, tx_i,
                    tx_log, rx_vars, ui, queued, ports_queued, pending, ticking, join_calls, export_vars,
                    crashed, w_vars >>

\* Variant of transmitter_after_write: a failed write is logged and the loop
\* goes on to the next sample.
transmitter_after_write_continue(ok) == "check"

\* transmitter, lines 40-43: where the loop goes after write_all returned.
transmitter_after_write(ok) == IF ok THEN "check" ELSE "eot"

\* Variant of next_sample: the series is walked from its last sample.
next_sample_reversed(data, i) == data[Len(data) - i]

\* transmitter, line 34: the sample the iterator yields after i samples.
next_sample(data, i) == data[i + 1]

\* transmitter: serial.write_all(&sample), which succeeds or fails.
TxWrite ==
    /\ tx_pc = "write" /\ ~crashed
    /\ \E ok \in BOOLEAN :
         /\ tx_log' = Append(tx_log, [site  |-> "sample",
                                      bytes |-> to_le_bytes(next_sample(unfiltered_data, tx_i)),
                                      ok    |-> ok])
         /\ tx_pc' = transmitter_after_write(ok)
    /\ tx_i' = tx_i + 1
    /\ UNCHANGED << app_state, ports, state, handshake, session_vars, tx_loaded,
                    rx_vars, ui, queued, ports_queued, pending, ticking, join_calls, export_vars, crashed,
                    w_vars >>

\* transmitter, lines 46-49: serial.write_all(EOT), then the thread ends.
TxEot ==
    /\ tx_pc = "eot" /\ ~crashed
    /\ \E ok \in BOOLEAN :
         tx_log' = Append(tx_log, [site |-> "EOT", bytes |-> EOT, ok |-> ok])
    /\ tx_pc' = "done"
    /\ UNCHANGED << app_state, ports, state, handshake, session_vars, tx_i,
                    tx_loaded, rx_vars, ui, queued, ports_queued, pending, ticking, join_calls, export_vars,
                    crashed, w_vars >>

\* Variant of receiver_frame: every frame goes on to the push.
receiver_frame_push_first(buffer) == "push"

\* receiver, lines 61-64: the frame read is compared with EOT; the sentinel
\* ends the loop, any other frame goes on to the push of line 66.
receiver_frame(buffer) == IF buffer = EOT THEN "done" ELSE "push"

\* Variant of RxRead: the receiver stops reading once the token is set.
RxReadUnlessCancelled ==
    /\ rx_pc = "read" /\ ~crashed
    /\ Len(rx_log) < MaxReads
    /\ cancellation_token # "true"
    /\ \E buffer \in DeviceFrames :
         /\ rx_log' = Append(rx_log, buffer)
         /\ rx_pc' = receiver_frame(buffer)
    /\ UNCHANGED << app_state, ports, state, handshake, session_vars, tx_vars,
                    ui, queued, ports_queued, pending, ticking, join_calls, export_vars,
                    crashed, w_vars >>

\* receiver, lines 56-64: read_exact returns a frame the device sent and the
\* frame is compared with EOT.
RxRead ==
    /\ rx_pc = "read" /\ ~crashed
    /\ Len(rx_log) < MaxReads
    /\ \E buffer \in DeviceFrames :
         /\ rx_log' = Append(rx_log, buffer)
         /\ rx_pc' = receiver_frame(buffer)
    /\ UNCHANGED << app_state, ports, state, handshake, session_vars, tx_vars,
                    ui, queued, ports_queued, pending, ticking, join_calls, export_vars,
                    crashed, w_vars >>

\* Variant of push_allowed: the receiver pushes without taking the lock.
push_unlocked(u) == TRUE

\* receiver, line 66: output.lock() is granted when no build_chart holds the
\* guard taken at graph.rs line 173.
push_allowed(u) == u # "build_chart"

\* receiver, line 66: output.lock().push(f32::from_le_bytes(buffer)), once
\* the lock of the buffer is granted; then the loop reads again.
RxPush ==
    /\ rx_pc = "push" /\ ~crashed
    /\ push_allowed(ui)
    /\ filtered_data' = Append(filtered_data, from_le_bytes(rx_log[Len(rx_log)]))
    /\ rx_pc' = "read"
    /\ UNCHANGED << app_state, ports, state, handshake, unfiltered_data, time,
                    cancellation_token, receiver, transmitter, mode, tx_vars,
                    rx_log, ui, queued, ports_queued, pending, ticking, join_calls,
                    export_vars, crashed, w_vars >>

\* Variant of RxReadErr: a failed read also cancels the transmitter.
RxReadErrCancels ==
    /\ rx_pc = "read" /\ ~crashed
    /\ rx_pc' = "done"
    /\ cancellation_token' = "true"
    /\ UNCHANGED << app_state, ports, state, handshake, unfiltered_data, time,
                    filtered_data, receiver, transmitter, mode, tx_vars,
                    rx_log, ui, queued, ports_queued, pending, ticking, join_calls, export_vars, crashed,
                    w_vars >>

\* receiver, lines 56-59: read_exact fails (I/O error or the 100 ms timeout).
RxReadErr ==
    /\ rx_pc = "read" /\ ~crashed
    /\ rx_pc' = "done"
    /\ UNCHANGED << app_state, ports, state, handshake, session_vars, tx_vars,
                    rx_log, ui, queued, ports_queued, pending, ticking, join_calls, export_vars, crashed,
                    w_vars >>

\* ------------------------------------------------ Filter::update, Finish

\* The Filter is dropped and the application returns to Ports::new(); the
\* joined threads and the closed link are gone with it. view: the messages
\* of the view Finish was pressed on.
ReturnToPorts(view) ==
    /\ pending' \in StaleAfter(view, ports_view(PortsNew))
    /\ app_state' = "Ports"
    /\ ports' = PortsNew
    /\ state' = "none"
    /\ unfiltered_data' = << >>
    /\ time' = << >>
    /\ filtered_data' = << >>
    /\ cancellation_token' = "absent"
    /\ receiver' = "None"
    /\ transmitter' = "None"
    /\ mode' = Streaming
    /\ ui' = "idle"
    /\ ticking' = FALSE
    /\ exported' = << >>
    /\ reported' = "none"
    /\ tx_pc' = "unspawned" /\ tx_i' = 0 /\ tx_loaded' = << >> /\ tx_log' = << >>
    /\ rx_pc' = "unspawned" /\ rx_log' = << >>

\* Variant of finish_store: Finish leaves the token as it is.
finish_store_skipped(token) == token

\* Finish, line 163: cancellation_token.store(true), whatever it held.
finish_store(token) == "true"

\* Variant of FinishConnected: the joins are made whether or not a handle
\* is left.
FinishConnectedAlwaysJoins ==
    /\ state = "Connected"
    /\ cancellation_token' = "true"
    /\ transmitter' = "None"
    /\ join_calls' = [join_calls EXCEPT !.tx = @ + 1]
    /\ ui' = "finish_join_tx"
    /\ UNCHANGED << app_state, ports, state, unfiltered_data, time, filtered_data,
                    receiver, mode, ticking, export_vars, tx_vars, rx_vars,
                    handshake, queued, ports_queued, pending, crashed, w_vars >>

\* Finish, lines 163-174, up to the first join that has to be waited for:
\* store(true), transmitter.take() and join, receiver.take() and join.
FinishConnected ==
    /\ state = "Connected"
    /\ IF transmitter = "Some"
       THEN /\ cancellation_token' = finish_store(cancellation_token)
            /\ transmitter' = "None"
            /\ join_calls' = [join_calls EXCEPT !.tx = @ + 1]
            /\ ui' = "finish_join_tx"
            /\ UNCHANGED << app_state, ports, state, unfiltered_data, time,
                            filtered_data, receiver, mode, ticking, export_vars,
                            tx_vars, rx_vars, pending >>
       ELSE IF receiver = "Some"
       THEN /\ cancellation_token' = finish_store(cancellation_token)
            /\ receiver' = "None"
            /\ join_calls' = [join_calls EXCEPT !.rx = @ + 1]
            /\ ui' = "finish_join_rx"
            /\ UNCHANGED << app_state, ports, state, unfiltered_data, time,
                            filtered_data, transmitter, mode, ticking, export_vars,
                            tx_vars, rx_vars, pending >>
       ELSE /\ ReturnToPorts(ViewMessages)
            /\ UNCHANGED join_calls
    /\ UNCHANGED << handshake, queued, ports_queued, crashed, w_vars >>

\* Variant of FinishErrored: "Ok" on the error screen retries the handshake.
FinishErroredRetry ==
    /\ state = "Errored"
    /\ state' = "Connecting"
    /\ handshake' = "running"
    /\ UNCHANGED << app_state, ports, session_vars, tx_vars, rx_vars, ui, queued, ports_queued, pending,
                    ticking, join_calls, export_vars, crashed, w_vars >>

\* Finish in State::Errored, line 177.
FinishErrored ==
    /\ state = "Errored"
    /\ ReturnToPorts(ViewMessages)
    /\ UNCHANGED << handshake, queued, ports_queued, join_calls, crashed, w_vars >>

\* Finish in State::Connecting, line 179: unreachable!().
FinishConnecting ==
    /\ state = "Connecting"
    /\ crashed' = TRUE
    /\ UNCHANGED << app_state, ports, state, handshake, session_vars, tx_vars,
                    rx_vars, ui, queued, ports_queued, pending, ticking, join_calls,
                    export_vars, w_vars >>

\* Filter::update, Message::Finish: offered by the "Ok" button of the
\* Connected and Errored views (no button while Connecting).
Finish ==
    /\ app_state = "Filter" /\ ui = "idle" /\ ~crashed /\ ~ports_queued
    /\ Delivered(Msg("Finish"))
    /\ IF state = "Connecting"
       THEN FinishConnecting
       ELSE FinishConnected \/ FinishErrored

\* The view a Finish that had to wait in a join was pressed on: a handle was
\* still held, so the view had no Export button.
finish_view == filter_view(state, "Some", mode)

\* Finish, lines 167-172: transmitter.join() returns, then receiver.take().
FinishJoinTx ==
    /\ ui = "finish_join_tx" /\ ~crashed
    /\ tx_pc = "done"
    /\ IF receiver = "Some"
       THEN /\ receiver' = "None"
            /\ join_calls' = [join_calls EXCEPT !.rx = @ + 1]
            /\ ui' = "finish_join_rx"
            /\ UNCHANGED << app_state, ports, state, unfiltered_data, time,
                            filtered_data, cancellation_token, transmitter, mode,
                            ticking, export_vars, tx_vars, rx_vars, pending >>
       ELSE /\ ReturnToPorts(finish_view)
            /\ UNCHANGED join_calls
    /\ UNCHANGED << handshake, queued, ports_queued, crashed, w_vars >>

\* Finish, lines 171-174: receiver.join() returns, Some(Ports::new()).
FinishJoinRx ==
    /\ ui = "finish_join_rx" /\ ~crashed
    /\ rx_pc = "done"
    /\ ReturnToPorts(finish_view)
    /\ UNCHANGED << handshake, queued, ports_queued, join_calls, crashed, w_vars >>

\* ----------------------------------------------- Filter::update, Refresh

\* Filter::subscription: the 60 Hz timer publishes a Refresh message.
Tick ==
    /\ ticking /\ ~queued /\ ~crashed
    /\ queued' = TRUE
    /\ UNCHANGED << app_state, ports, state, handshake, session_vars, tx_vars,
                    rx_vars, ui, ports_queued, pending, ticking, join_calls, export_vars,
                    crashed, w_vars >>

\* Refresh, line 196: receiver.as_ref().map_or(false, JoinHandle::is_finished).
receiver_is_finished(rx, pc) == rx = "Some" /\ pc = "done"

\* Variant of refresh_taken: the transmitter handle is joined by reference.
refresh_taken_rx_only == [receiver |-> "None", transmitter |-> "Some"]

\* Handles taken by Refresh, lines 197-198.
refresh_taken == [receiver |-> "None", transmitter |-> "None"]

\* Filter::update, Message::Refresh (and the dispatch of app.rs): a queued
\* tick is delivered; outside State::Connected it hits unreachable!().
Refresh ==
    /\ queued /\ ui = "idle" /\ ~crashed /\ pending = NoMessage
    /\ app_state = "Filter" => ~ports_queued
    /\ queued' = FALSE
    /\ IF app_state # "Filter" \/ state # "Connected"
       THEN /\ crashed' = TRUE
            /\ UNCHANGED << session_vars, ui, ticking, join_calls >>
       ELSE IF receiver_is_finished(receiver, rx_pc)
       THEN IF transmitter = "None"
            THEN /\ crashed' = TRUE
                 /\ UNCHANGED << session_vars, ui, ticking, join_calls >>
            ELSE /\ receiver' = refresh_taken.receiver
                 /\ transmitter' = refresh_taken.transmitter
                 /\ join_calls' = [tx |-> join_calls.tx + 1, rx |-> join_calls.rx + 1]
                 /\ ui' = "refresh_join_tx"
                 /\ UNCHANGED << unfiltered_data, time, filtered_data, cancellation_token,
                                 mode, ticking, crashed >>
       ELSE /\ ticking' = subscription(state, receiver, transmitter)
            /\ UNCHANGED << session_vars, ui, join_calls, crashed >>
    /\ UNCHANGED << app_state, ports, state, handshake, tx_vars, rx_vars,
                    ports_queued, pending, export_vars, w_vars >>

\* Refresh, lines 200-204: rx.join() returned at once, tx.join() returns.
RefreshJoinTx ==
    /\ ui = "refresh_join_tx" /\ ~crashed
    /\ tx_pc = "done"
    /\ ui' = "idle"
    /\ ticking' = subscription(state, receiver, transmitter)
    /\ UNCHANGED << app_state, ports, state, handshake, session_vars, tx_vars,
                    rx_vars, queued, ports_queued, pending, join_calls, export_vars, crashed, w_vars >>

\* ------------------------------------------------- Filter::update, Graph

\* Graph::view, line 121: (len - 1) as f64, the upper end of both sliders.
\* On an empty buffer the usize subtraction wraps to usize::MAX in a build
\* without overflow checks.
view_total_samples(len) == wrapping_sub(len, 1)

\* assign, lines 256-261: f64 -> usize cast of a slider value, saturating at
\* both ends.
assign(value) ==
    IF value < 0 THEN 0 ELSE IF value > USIZE_MAX THEN USIZE_MAX ELSE value

\* Message::Graph(SwitchMode): the mode button of Graph::view; outside
\* State::Connected the let-else of filter.rs line 184 is unreachable!().
GraphSwitchMode ==
    /\ app_state = "Filter" /\ ui = "idle" /\ ~crashed /\ ~ports_queued
    /\ Delivered(Msg("SwitchMode"))
    /\ IF state # "Connected"
       THEN /\ crashed' = TRUE
            /\ UNCHANGED << mode, ticking, pending >>
       ELSE /\ mode' = switch_mode(mode)
            /\ ticking' = subscription(state, receiver, transmitter)
            /\ pending' \in StaleAfter(ViewMessages, filter_view(state, receiver, mode'))
            /\ UNCHANGED crashed
    /\ UNCHANGED << app_state, ports, state, handshake, unfiltered_data, time,
                    filtered_data, cancellation_token, receiver, transmitter,
                    tx_vars, rx_vars, ui, queued, ports_queued, join_calls,
                    export_vars, w_vars >>

\* Message::Graph(SizeUpdated): the window slider, built in Static mode over
\* MIN_WINDOW_SIZE..=total_samples. Outside State::Connected the message hits
\* filter.rs line 184, in Mode::Streaming graph.rs line 78.
GraphSizeUpdated ==
    /\ app_state = "Filter" /\ ui = "idle" /\ ~crashed /\ ~ports_queued
    /\ Delivered(Msg("SizeUpdated"))
    /\ IF state # "Connected" \/ mode.tag # "Static"
       THEN /\ crashed' = TRUE
            /\ UNCHANGED << mode, ticking, pending >>
       ELSE /\ \E value \in SliderValues(MIN_WINDOW_SIZE,
                                         view_total_samples(Len(filtered_data))) :
                 mode' = [mode EXCEPT !.size = assign(value)]
            /\ ticking' = subscription(state, receiver, transmitter)
            /\ pending' \in StaleAfter(ViewMessages, filter_view(state, receiver, mode'))
            /\ UNCHANGED crashed
    /\ UNCHANGED << app_state, ports, state, handshake, unfiltered_data, time,
                    filtered_data, cancellation_token, receiver, transmitter,
                    tx_vars, rx_vars, ui, queued, ports_queued, join_calls,
                    export_vars, w_vars >>

\* Message::Graph(OffsetUpdated): the offset slider, built in Static mode over
\* 0..=total_samples. Outside State::Connected the message hits filter.rs
\* line 184, in Mode::Streaming graph.rs line 86.
GraphOffsetUpdated ==
    /\ app_state = "Filter" /\ ui = "idle" /\ ~crashed /\ ~ports_queued
    /\ Delivered(Msg("OffsetUpdated"))
    /\ IF state # "Connected" \/ mode.tag # "Static"
       THEN /\ crashed' = TRUE
            /\ UNCHANGED << mode, ticking, pending >>
       ELSE /\ \E value \in SliderValues(0, view_total_samples(Len(filtered_data))) :
                 mode' = [mode EXCEPT !.offset = assign(value)]
            /\ ticking' = subscription(state, receiver, transmitter)
            /\ pending' \in StaleAfter(ViewMessages, filter_view(state, receiver, mode'))
            /\ UNCHANGED crashed
    /\ UNCHANGED << app_state, ports, state, handshake, unfiltered_data, time,
                    filtered_data, cancellation_token, receiver, transmitter,
                    tx_vars, rx_vars, ui, queued, ports_queued, join_calls,
                    export_vars, w_vars >>

\* Graph::view, line 121, in a build with overflow checks: len() - 1 on an
\* empty buffer panics while the Static controls are built.
ViewStaticEmpty ==
    /\ app_state = "Filter" /\ state = "Connected" /\ ui = "idle" /\ ~crashed
    /\ pending = NoMessage
    /\ mode.tag = "Static"
    /\ Len(filtered_data) = 0
    /\ crashed' = TRUE
    /\ UNCHANGED << app_state, ports, state, handshake, session_vars, tx_vars,
                    rx_vars, ui, queued, ports_queued, pending, ticking, join_calls, export_vars, w_vars >>

\* Graph::build_chart, lines 200-220: time[start] and time[end] (line 200)
\* and the slices time[start..end] (212), filtered[start..end] (215) and
\* unfiltered[start..end] (219) are in bounds.
chart_in_bounds(w, time_len, input_len, total_samples) ==
    /\ 0 <= w.start /\ w.start < time_len
    /\ 0 <= w.end /\ w.end < time_len
    /\ w.start <= w.end
    /\ w.end <= total_samples
    /\ w.end <= input_len

\* Graph::build_chart drawing the chart of a non-empty buffer: an overflow
\* at line 192 (a build with overflow checks panics there; without them the
\* wrapped end lies before start) or an index out of bounds panics.
ChartDraw ==
    /\ app_state = "Filter" /\ state = "Connected" /\ ui = "idle" /\ ~crashed
    /\ pending = NoMessage
    /\ Len(filtered_data) # 0
    /\ \/ build_chart_overflows(mode, Len(filtered_data))
       \/ ~chart_in_bounds(build_chart_window(mode, Len(filtered_data)), Len(time),
                           N, Len(filtered_data))
    /\ crashed' = TRUE
    /\ UNCHANGED << app_state, ports, state, handshake, session_vars, tx_vars,
                    rx_vars, ui, queued, ports_queued, pending, ticking, join_calls, export_vars, w_vars >>

\* ------------------------------------------------ Filter::update, Export

\* Graph::export: File::create truncates the file, serde_json::to_writer
\* writes {input, output}; either may fail.
\* f32::is_finite on a bit pattern: the exponent field is not all ones.
is_finite(bits) == (bits \div 8388608) % 256 # 255

\* serde_json serialising one f32 (Graph::export, line 158): a finite float is
\* written as the shortest decimal that parses back to the same float, NaN
\* and the infinities are written as null.
serialize_f32(bits) == IF is_finite(bits) THEN << "number", bits >> ELSE << "null" >>

\* serde_json serialising a Vec<f32>: a JSON array, element by element.
serialize_vec(v) == [i \in 1..Len(v) |-> serialize_f32(v[i])]

export_file(outcome, old, input, output) ==
    CASE outcome = "ok"         -> << [input  |-> serialize_vec(input),
                                       output |-> serialize_vec(output)] >>
      [] outcome = "create_err" -> old
      [] outcome = "write_err"  -> << >>

\* Export, lines 213-216: what the handler logs for the result of export().
export_report(outcome) == IF outcome = "ok" THEN "info" ELSE "error"

\* Variant of export_panics: the result of export() is unwrapped.
export_panics_on_error(outcome) == outcome # "ok"

\* Export, lines 213-216: the match on the result has no panicking arm.
export_panics(outcome) == FALSE

\* Filter::update, Message::Export: the button is shown when receiver is None;
\* any state but Connected with both handles None hits unreachable!() (line
\* 222).
Export ==
    /\ app_state = "Filter" /\ ui = "idle" /\ ~crashed /\ ~ports_queued
    /\ Delivered(Msg("Export"))
    /\ IF state = "Connected" /\ receiver = "None" /\ transmitter = "None"
       THEN /\ \E outcome \in {"ok", "create_err", "write_err"} :
                 /\ exported' = export_file(outcome, exported, unfiltered_data,
                                            filtered_data)
                 /\ reported' = export_report(outcome)
                 /\ crashed' = export_panics(outcome)
            /\ ticking' = subscription(state, receiver, transmitter)
            /\ pending' \in StaleAfter(ViewMessages, ViewMessages)
       ELSE /\ crashed' = TRUE
            /\ UNCHANGED << export_vars, ticking, pending >>
    /\ UNCHANGED << app_state, ports, state, handshake, session_vars, tx_vars,
                    rx_vars, ui, queued, ports_queued, join_calls, w_vars >>

\* --------------------------------------------------------- specification

Next ==
    \/ PortSelected
    \/ StopTimeUpdated
    \/ FunctionUpdated
    \/ EvaluateFunction
    \/ PortsTick
    \/ RefreshPorts
    \/ StartFiltering
    \/ UpdateUnreachable
    \/ HandshakeTask
    \/ ConnectionFailed
    \/ ConnectionEstablished
    \/ TxCheck
    \/ TxWrite
    \/ TxEot
    \/ RxRead
    \/ RxPush
    \/ RxReadErr
    \/ Finish
    \/ FinishJoinTx
    \/ FinishJoinRx
    \/ Tick
    \/ Refresh
    \/ RefreshJoinTx
    \/ GraphSwitchMode
    \/ GraphSizeUpdated
    \/ GraphOffsetUpdated
    \/ ViewStaticEmpty
    \/ ChartDraw
    \/ Export

Spec == Init /\ [][Next]_vars

\* The worker threads are scheduled: a transmitter that can take its next
\* step takes it (write_all returns), and a receiver left in its loop
\* eventually has a read fail (the port's 100 ms read timeout).
WorkersFair ==
    /\ WF_vars(TxCheck) /\ WF_vars(TxWrite) /\ WF_vars(TxEot)
    /\ WF_vars(RxPush) /\ WF_vars(RxReadErr)

\* The rest of a batch is handled: the message left behind the one just
\* handled is handed to update.
DeliverPending ==
    /\ pending # NoMessage
    /\ \/ PortSelected \/ StopTimeUpdated \/ FunctionUpdated \/ EvaluateFunction
       \/ StartFiltering \/ UpdateUnreachable \/ Finish \/ Export
       \/ GraphSwitchMode \/ GraphSizeUpdated \/ GraphOffsetUpdated

\* The UI thread is scheduled: a join whose thread has ended returns, the
\* subscription's timer fires while it runs, and the runtime delivers a
\* queued Refresh or RefreshPorts and the rest of a batch to update.
UiFair ==
    /\ WF_vars(FinishJoinTx) /\ WF_vars(FinishJoinRx)
    /\ WF_vars(Tick) /\ WF_vars(Refresh) /\ WF_vars(RefreshJoinTx)
    /\ WF_vars(PortsTick) /\ WF_vars(RefreshPorts)
    /\ WF_vars(DeliverPending)

FairSpec == Spec /\ WorkersFair /\ UiFair

\* --------------------------------- the buffer's mutex during build_chart

\* Graph::build_chart, lines 173-200: a draw of a non-empty buffer whose
\* window is in bounds takes the lock of the buffer and keeps the guard
\* while the mesh and the series are drawn.
ChartBegin ==
    /\ app_state = "Filter" /\ state = "Connected" /\ ui = "idle" /\ ~crashed
    /\ pending = NoMessage
    /\ Len(filtered_data) # 0
    /\ ~build_chart_overflows(mode, Len(filtered_data))
    /\ chart_in_bounds(build_chart_window(mode, Len(filtered_data)), Len(time),
                       N, Len(filtered_data))
    /\ ui' = "build_chart"
    /\ UNCHANGED << app_state, ports, state, handshake, session_vars, tx_vars,
                    rx_vars, queued, ports_queued, pending, ticking, join_calls, export_vars, crashed,
                    w_vars >>

\* Graph::build_chart, line 253: the draw is over and the guard is dropped.
ChartEnd ==
    /\ ui = "build_chart" /\ ~crashed
    /\ ui' = "idle"
    /\ UNCHANGED << app_state, ports, state, handshake, session_vars, tx_vars,
                    rx_vars, queued, ports_queued, pending, ticking, join_calls, export_vars, crashed,
                    w_vars >>

\* What the holder of the buffer's guard uses it for between two steps:
\* build_chart keeps the guard of line 173 to the end of the function and
\* draws the output series from the locked buffer (lines 213-216, 236); the
\* guards of Graph::view (line 121) and Graph::export (line 155) are taken
\* and dropped within one handler.
lock_use == IF ui = "build_chart" THEN "draw" ELSE "none"

\* The steps of the program with the draw split at the lock: the receiver's
\* push (RxPush) waits while the draw holds the guard, every other step of
\* the workers goes on.
LockNext ==
    \/ Next
    \/ ChartBegin
    \/ ChartEnd

LockSpec == Init /\ [][LockNext]_vars

\* ------------------------------------- build_chart as a pure computation

\* Buffer lengths tried: the small ones and those around the lookback.
WindowTotals == 0..MaxTotal \cup {STREAMING_WINDOW_SIZE - 1, STREAMING_WINDOW_SIZE,
                                  STREAMING_WINDOW_SIZE + 1, 1000}
\* Sizes and offsets tried.
WindowParams == 0..(MaxTotal + 1) \cup {MIN_WINDOW_SIZE, 50, 100, 1000, USIZE_MAX}
WindowModes == {Streaming} \cup {Static(sz, off) : sz \in WindowParams, off \in WindowParams}

\* Graph::build_chart, lines 173-194: nothing on an empty buffer, else the
\* window (build without overflow checks).
build_chart(m, total_samples) ==
    IF total_samples = 0
    THEN [status |-> "empty", start |-> 0, end |-> 0]
    ELSE [status |-> "window",
          start  |-> build_chart_window(m, total_samples).start,
          end    |-> build_chart_window(m, total_samples).end]

\* What a call of build_chart can do, by build: the window with the sum of
\* line 192 wrapped, or, when that sum overflows, a panic at line 192.
build_chart_outcomes(m, total_samples) ==
    {build_chart(m, total_samples)}
      \cup (IF total_samples # 0 /\ build_chart_overflows(m, total_samples)
            THEN {[status |-> "panic", start |-> 0, end |-> 0]} ELSE {})

WindowInit ==
    /\ app_state = "Ports" /\ ports = PortsNew /\ state = "none"
    /\ handshake = "none" /\ unfiltered_data = << >> /\ time = << >>
    /\ filtered_data = << >>
    /\ cancellation_token = "absent" /\ receiver = "None" /\ transmitter = "None"
    /\ mode = Streaming /\ tx_pc = "unspawned" /\ tx_i = 0 /\ tx_loaded = << >>
    /\ tx_log = << >> /\ rx_pc = "unspawned" /\ rx_log = << >> /\ ui = "idle"
    /\ queued = FALSE /\ ports_queued = FALSE /\ pending = NoMessage
    /\ ticking = FALSE
    /\ join_calls = [tx |-> 0, rx |-> 0]
    /\ exported = << >> /\ reported = "none" /\ crashed = FALSE
    /\ w_in \in [mode : WindowModes, total : WindowTotals]
    /\ w_out = [status |-> "pending", start |-> 0, end |-> 0]

\* One call of build_chart on the chosen mode and buffer length.
WindowCompute ==
    /\ w_out.status = "pending"
    /\ w_out' \in build_chart_outcomes(w_in.mode, w_in.total)
    /\ UNCHANGED << app_state, ports, state, handshake, session_vars, tx_vars,
                    rx_vars, ui, queued, ports_queued, pending, ticking, join_calls, export_vars, crashed,
                    w_in >>

WindowNext == WindowCompute

WindowSpec == WindowInit /\ [][WindowNext]_vars

\* ================================================================ claims

\* The four bytes of 0x7FC00000 in little-endian order.
SentinelBytes == << 0, 0, 192, 127 >>

\* write_all calls of the transmitter loop, and of the sentinel after it.
PayloadWrites == SelectSeq(tx_log, LAMBDA e : e.site = "sample")
SentinelWrites == SelectSeq(tx_log, LAMBDA e : e.site = "EOT")
\* Frames that reached the link: the writes that returned Ok.
LinkFrames == SelectSeq(tx_log, LAMBDA e : e.ok)
AllWritesOk == \A j \in 1..Len(tx_log) : tx_log[j].ok

\* Frames written whose four bytes are those of the sentinel, and the others:
\* what a reader of the link can tell apart (receiver compares the bytes).
SentinelFrames == SelectSeq(tx_log, LAMBDA e : e.bytes = SentinelBytes)
PayloadFrames == SelectSeq(tx_log, LAMBDA e : e.bytes # SentinelBytes)
LinkSentinelFrames == SelectSeq(LinkFrames, LAMBDA e : e.bytes = SentinelBytes)

\* C1: whatever N and whenever the token is set, the frames the transmitter
\* writes are at most N payload frames followed by exactly one frame with the
\* bytes of the sentinel 0x7FC00000: never more than one such frame, no frame
\* written after it, exactly one once the transmitter has ended, and with no
\* failed write the link carries the payload frames followed by that one
\* sentinel frame.
C1_PayloadsThenOneSentinel ==
    /\ Len(PayloadFrames) <= N
    /\ Len(SentinelFrames) <= 1
    /\ \A j \in 1..Len(tx_log) :
         tx_log[j].bytes = SentinelBytes => j = Len(tx_log)
    /\ tx_pc = "done" =>
         /\ Len(SentinelFrames) = 1
         /\ tx_log[Len(tx_log)].bytes = SentinelBytes
    /\ (tx_pc = "done" /\ AllWritesOk) =>
         /\ Len(LinkFrames) <= N + 1
         /\ Len(LinkSentinelFrames) = 1
         /\ LinkFrames[Len(LinkFrames)].bytes = SentinelBytes

\* C1, the part that holds: by write_all call site the transmitter makes at
\* most N sample writes and then one EOT write, the last write it makes; and
\* when no sample of the series has the bit pattern 0x7FC00000 the frames are
\* payloads followed by exactly one sentinel frame.
C1_WriteCalls ==
    /\ Len(PayloadWrites) <= N
    /\ Len(SentinelWrites) <= 1
    /\ \A j \in 1..Len(tx_log) :
         tx_log[j].site = "EOT" => (j = Len(tx_log) /\ tx_log[j].bytes = SentinelBytes)
    /\ tx_pc = "done" =>
         /\ Len(SentinelWrites) = 1
         /\ tx_log[Len(tx_log)].site = "EOT"
    /\ (\A j \in 1..N : unfiltered_data[j] # EOT_BITS) =>
         /\ SentinelFrames = SentinelWrites
         /\ PayloadFrames = PayloadWrites

\* A series whose first sample is NaN with the sentinel's bits, sent whole with
\* no failed write: the link carries the sentinel's bytes, a payload, and the
\* sentinel's bytes again.
C1_SentinelBytesTwice ==
    /\ tx_pc = "done" /\ AllWritesOk /\ N = 2
    /\ unfiltered_data = << EOT_BITS, 1065353216 >>
    /\ Len(LinkFrames) = 3
    /\ LinkFrames[1].bytes = SentinelBytes
    /\ LinkFrames[2].bytes # SentinelBytes
    /\ LinkFrames[3].bytes = SentinelBytes

\* C2: if the token is already true at the transmitter's first load, no
\* payload frame is written and exactly one sentinel frame is.
C2_CancelledBeforeFirstCheck ==
    (Len(tx_loaded) > 0 /\ tx_loaded[1]) =>
        /\ PayloadWrites = << >>
        /\ tx_pc \in {"eot", "done"}
        /\ tx_pc = "eot" => tx_log = << >>
        /\ tx_pc = "done" =>
             /\ Len(tx_log) = 1
             /\ tx_log[1].site = "EOT"
             /\ tx_log[1].bytes = SentinelBytes

\* C2 witness: the first load returned true and the transmitter ended having
\* put the sentinel on the link.
C2_Witness ==
    /\ tx_loaded = << TRUE >>
    /\ tx_pc = "done"
    /\ Len(tx_log) = 1 /\ tx_log[1].ok

\* The floats of the frames read so far that are not the sentinel, in order.
RECURSIVE Decoded(_)
Decoded(frames) ==
    IF frames = << >> THEN << >>
    ELSE IF Head(frames) = SentinelBytes THEN Decoded(Tail(frames))
    ELSE << from_le_bytes(Head(frames)) >> \o Decoded(Tail(frames))

\* The frames the receiver has taken through its loop body: all it has read,
\* but for the one it is about to push.
PushedFrames ==
    IF rx_pc = "push" THEN SubSeq(rx_log, 1, Len(rx_log) - 1) ELSE rx_log

\* C3: in a Connected session the output buffer never holds more than N
\* samples, and holds exactly the appended frames in arrival order.
C3_OutputWithinN ==
    state = "Connected" =>
        /\ Len(filtered_data) <= N
        /\ filtered_data = Decoded(PushedFrames)

\* The arrival-order half of C3 alone.
C3_ArrivalOrder == state = "Connected" => filtered_data = Decoded(PushedFrames)

\* What an Errored session holds: no worker, no token, no buffer, no series,
\* no handle, no pending handshake, no tick.
NoSessionState ==
    /\ tx_pc = "unspawned" /\ rx_pc = "unspawned"
    /\ tx_log = << >> /\ rx_log = << >>
    /\ cancellation_token = "absent"
    /\ receiver = "None" /\ transmitter = "None"
    /\ unfiltered_data = << >> /\ filtered_data = << >>
    /\ join_calls = [tx |-> 0, rx |-> 0]
    /\ handshake = "none"
    /\ ~ticking

\* C4: workers exist only in Connected; a failed handshake (open, write, read,
\* timeout) moves Connecting to Errored; an Errored session holds no worker,
\* token or buffer, never becomes Connecting or Connected, and never runs the
\* handshake again.
C4_NoWorkersWithoutHandshake ==
    /\ [](state = "Errored" => NoSessionState)
    /\ []((tx_pc # "unspawned" \/ rx_pc # "unspawned") => state = "Connected")
    /\ [][(handshake \in HandshakeOutcomes \ {"ok"} /\ handshake' # handshake)
            => (state = "Connecting" /\ state' = "Errored")]_vars
    /\ [][(state # "Connected" /\ state' = "Connected")
            => (state = "Connecting" /\ handshake = "ok")]_vars
    /\ [][state = "Errored" => (state' \in {"Errored", "none"} /\ handshake' = "none")]_vars

\* C4 witness: a session that failed at the read timeout sits in Errored.
C4_Witness ==
    /\ app_state = "Filter" /\ state = "Errored"
    /\ tx_pc = "unspawned" /\ rx_pc = "unspawned"

\* C5: the token starts false, only Finish sets it (or ends the session with
\* it), no step clears it while the session lasts, no worker and no other
\* handler writes it, and it goes away only with the session.
C5_TokenMonotonic ==
    [][ /\ (cancellation_token = "absent" /\ cancellation_token' # "absent")
            => (cancellation_token' = "false" /\ state = "Connecting"
                /\ state' = "Connected")
        /\ (cancellation_token = "false" /\ cancellation_token' # "false")
            => /\ Finish
               /\ \/ cancellation_token' = "true"
                  \/ (cancellation_token' = "absent" /\ app_state' = "Ports")
        /\ (cancellation_token = "true" /\ cancellation_token' # "true")
            => (cancellation_token' = "absent" /\ app_state' = "Ports")
        /\ (state = "Connected" /\ state' = "Connected" /\ ui = "idle" /\ ~Finish)
            => cancellation_token' = cancellation_token ]_vars

\* C5 witness: the token is set and the transmitter has since loaded it.
C5_Witness ==
    /\ state = "Connected" /\ cancellation_token = "true"
    /\ Len(tx_loaded) = 2 /\ tx_loaded[2]

\* C6: a worker's handle is present iff join has not been called on it, a
\* handle once None stays None for the session, and when the session ends
\* each worker has been joined exactly once.
C6_JoinedExactlyOnce ==
    /\ [](state = "Connected" =>
            /\ (transmitter = "Some") <=> (join_calls.tx = 0)
            /\ (receiver = "Some") <=> (join_calls.rx = 0)
            /\ join_calls.tx <= 1 /\ join_calls.rx <= 1)
    /\ [][(state = "Connected" /\ state' = "Connected") =>
            /\ (transmitter = "None" => transmitter' = "None")
            /\ (receiver = "None" => receiver' = "None")]_vars
    /\ [][(state = "Connected" /\ state' # "Connected") =>
            join_calls' = [tx |-> 1, rx |-> 1]]_vars

\* C6 witness: Refresh has reclaimed both handles, one join each.
C6_Witness ==
    /\ state = "Connected" /\ ui = "idle" /\ cancellation_token = "false"
    /\ receiver = "None" /\ transmitter = "None"
    /\ join_calls = [tx |-> 1, rx |-> 1]
    /\ ~queued

\* C7: Finish in a Connected session with both handles reclaimed calls no
\* join, waits for nothing, and is back at port selection in that one step.
C7_FinishAfterReclaim ==
    [][(Finish /\ state = "Connected" /\ receiver = "None" /\ transmitter = "None")
         => /\ app_state' = "Ports"
            /\ ports' = PortsNew
            /\ state' = "none"
            /\ ui' = "idle"
            /\ join_calls' = join_calls]_vars

\* C7 witness: a Connected session whose handles Refresh reclaimed, after a
\* receiver timeout and a full transmission, with Finish not yet issued.
C7_Witness ==
    /\ state = "Connected" /\ ui = "idle" /\ ~crashed
    /\ receiver = "None" /\ transmitter = "None"
    /\ cancellation_token = "false"
    /\ Len(PayloadWrites) = N /\ rx_log = << >>

\* C8: wherever the receiver handle is absent in a Connected session (where
\* the view offers Export) the transmitter handle is absent too, and every
\* Export message handed to Filter::update, pressed on the current view or
\* left from the previous one, finds a Connected session with both handles
\* absent and never reaches the unreachable!() arm of the handler.
C8_ExportPrecondition ==
    /\ []((state = "Connected" /\ receiver = "None") => transmitter = "None")
    /\ [][Export => (~crashed' /\ receiver = "None" /\ transmitter = "None")]_vars

\* C8 witness: an Export has been processed in a terminated session.
C8_Witness ==
    /\ state = "Connected" /\ receiver = "None" /\ transmitter = "None"
    /\ exported # << >>

\* C9: the session state moves only Connecting -> Connected, Connecting ->
\* Errored, and from Connected or Errored back to a fresh port selection; the
\* only step an Errored session takes is that reset (a panic of the
\* application ends the run and moves the session nowhere).
C9_SessionTransitions ==
    /\ [][state' # state =>
            \/ (state = "none" /\ state' = "Connecting")
            \/ (state = "Connecting" /\ state' \in {"Connected", "Errored"})
            \/ /\ state \in {"Connected", "Errored"}
               /\ state' = "none"
               /\ app_state' = "Ports"
               /\ ports' = PortsNew]_vars
    /\ [][(state = "Errored" /\ ~crashed') =>
            (state' = "none" /\ app_state' = "Ports")]_vars
    /\ [][crashed' => (state' = state /\ app_state' = app_state)]_vars

\* C9 witness: back at a fresh port selection after a Connected session.
C9_Witness ==
    /\ app_state = "Ports" /\ state = "none" /\ ports = PortsNew
    /\ join_calls = [tx |-> 1, rx |-> 1]

\* The window as C10 states it, in the integers: Streaming gives
\* [max(0, total-384), total-1]; Static gives start = min(offset, total) and
\* end = min(start+size, total-1) (start + size <= total - 1 is written
\* size <= total - 1 - start).
WindowAsClaimed ==
    /\ w_in.total >= 1
    /\ w_in.mode.tag = "Streaming" =>
         /\ w_out.start = (IF w_in.total - 384 > 0 THEN w_in.total - 384 ELSE 0)
         /\ w_out.end = w_in.total - 1
         /\ w_in.total = 1000 => (w_out.start = 616 /\ w_out.end = 999)
    /\ w_in.mode.tag = "Static" =>
         /\ w_out.start = (IF w_in.mode.offset <= w_in.total
                           THEN w_in.mode.offset ELSE w_in.total)
         /\ w_out.end = (IF w_in.mode.size <= (w_in.total - 1) - w_out.start
                         THEN w_out.start + w_in.mode.size ELSE w_in.total - 1)
         /\ (w_in.total = 1000 /\ w_in.mode.size = 100 /\ w_in.mode.offset = 50)
              => (w_out.start = 50 /\ w_out.end = 150)

\* C10: for every total >= 1 and every size and offset build_chart computes
\* a window, and the window it computes is: Streaming [max(0, total-384),
\* total-1] (total = 1000: [616, 999]); Static start = min(offset, total),
\* end = min(start+size, total-1) (total = 1000, size = 100, offset = 50:
\* [50, 150)).
C10_WindowComputation ==
    /\ w_out.status # "panic"
    /\ w_out.status = "window" => WindowAsClaimed

\* C10, the part that holds: whenever start + size fits a usize the call
\* does not panic and the window is the one stated.
C10_WindowWithoutOverflow ==
    ~build_chart_overflows(w_in.mode, w_in.total) =>
        /\ w_out.status # "panic"
        /\ w_out.status = "window" => WindowAsClaimed

\* The Static example of C10 has been computed.
C10_Example ==
    /\ w_in.total = 1000 /\ w_in.mode = Static(100, 50)
    /\ w_out = [status |-> "window", start |-> 50, end |-> 150]

\* A call in which C10 fails: size usize::MAX at offset 1 on a buffer of two
\* samples; the sum wraps to 0 and the window ends before it starts.
C10_SizeWraps ==
    /\ w_in.total = 2 /\ w_in.mode = Static(USIZE_MAX, 1)
    /\ w_out = [status |-> "window", start |-> 1, end |-> 0]

\* C11: whenever the graph is in Static mode, MIN_WINDOW_SIZE <= size,
\* 0 <= offset, and both size and offset are at most total - 1, where total
\* is the current length of the output buffer.
C11_StaticWithinBuffer ==
    (state = "Connected" /\ mode.tag = "Static") =>
        /\ MIN_WINDOW_SIZE <= mode.size
        /\ 0 <= mode.offset
        /\ mode.size <= Len(filtered_data) - 1
        /\ mode.offset <= Len(filtered_data) - 1

\* C12: the file a successful Export leaves holds, as its input field, the
\* input series generated at connection time and, as its output field, the
\* output buffer at the moment of export (the receiver has been joined, so
\* the buffer no longer changes): JSON numbers denoting the same floats,
\* element for element and in the same order.
C12_ExportRoundTrip ==
    exported # << >> =>
        /\ Len(exported[1].input) = Len(unfiltered_data)
        /\ \A i \in 1..Len(unfiltered_data) :
             exported[1].input[i] = << "number", unfiltered_data[i] >>
        /\ Len(exported[1].output) = Len(filtered_data)
        /\ \A i \in 1..Len(filtered_data) :
             exported[1].output[i] = << "number", filtered_data[i] >>

\* C13: once a payload write has failed, it is the last payload write of the
\* run; the only write after it is one sentinel write, and the transmitter
\* has ended as soon as that sentinel write has returned, failed or not.
C13_WriteFailureThenSentinel ==
    /\ \A j \in 1..Len(tx_log) :
         (tx_log[j].site = "sample" /\ ~tx_log[j].ok) =>
             /\ tx_pc \in {"eot", "done"}
             /\ \A k \in (j + 1)..Len(tx_log) : tx_log[k].site = "EOT"
             /\ Len(tx_log) <= j + 1
             /\ tx_pc = "eot" => Len(tx_log) = j
             /\ tx_pc = "done" => (Len(tx_log) = j + 1 /\ tx_log[j + 1].bytes = SentinelBytes)
    /\ \A j \in 1..Len(tx_log) : tx_log[j].site = "EOT" => tx_pc = "done"

\* C13 witness: with two samples to send, the first payload write failed, the
\* sentinel write failed too, and the transmitter has ended.
C13_Witness ==
    /\ N = 2 /\ tx_pc = "done" /\ cancellation_token = "false"
    /\ Len(tx_log) = 2
    /\ tx_log[1].site = "sample" /\ ~tx_log[1].ok
    /\ tx_log[2].site = "EOT" /\ ~tx_log[2].ok

\* C14: the payload writes made so far are the encodings of input[0..k], one
\* per sample and in index order; the token has been loaded once before each
\* of them and read false, and a load that read true is the last load of the
\* run, with no payload write after it.
C14_PrefixInOrder ==
    /\ Len(PayloadWrites) <= N
    /\ \A j \in 1..Len(PayloadWrites) :
         /\ Len(PayloadWrites[j].bytes) = 4
         /\ from_le_bytes(PayloadWrites[j].bytes) = unfiltered_data[j]
    /\ Len(tx_loaded) \in {Len(PayloadWrites), Len(PayloadWrites) + 1}
    /\ \A j \in 1..Len(PayloadWrites) : ~tx_loaded[j]
    /\ Len(tx_loaded) = Len(PayloadWrites) + 1 =>
         IF tx_loaded[Len(tx_loaded)]
         THEN tx_pc \in {"eot", "done"}
         ELSE tx_pc = "write"

\* C14 witness: a series of two different samples has been written in full.
C14_Witness ==
    /\ N = 2 /\ unfiltered_data[1] # unfiltered_data[2]
    /\ Len(PayloadWrites) = 2
    /\ tx_loaded = << FALSE, FALSE >>

\* C15: the output buffer holds the floats of exactly the frames read that
\* differ from the sentinel, in the order read (the last one once its push
\* has been made); a frame that differs from the sentinel is pushed in the
\* receiver's next step, before it reads again; a frame equal to the sentinel
\* is the last frame the receiver reads and is not in the buffer; once the
\* receiver has ended (sentinel or read error) it reads nothing and the
\* buffer no longer changes for the rest of the session.
C15_ReceiverAppends ==
    /\ [](rx_pc # "unspawned" =>
            /\ Len(filtered_data) =
                 Len(SelectSeq(PushedFrames, LAMBDA f : f # SentinelBytes))
            /\ filtered_data = Decoded(PushedFrames)
            /\ \A i \in 1..Len(filtered_data) : filtered_data[i] # 2143289344
            /\ \A j \in 1..Len(rx_log) :
                 rx_log[j] = SentinelBytes => (j = Len(rx_log) /\ rx_pc = "done"))
    /\ [][(rx_pc = "read" /\ rx_log' # rx_log) =>
            /\ Len(rx_log') = Len(rx_log) + 1
            /\ filtered_data' = filtered_data
            /\ IF rx_log'[Len(rx_log')] = SentinelBytes
               THEN rx_pc' = "done"
               ELSE rx_pc' = "push"]_vars
    /\ [][(rx_pc = "push" /\ rx_pc' # "push") =>
            /\ rx_pc' = "read" /\ rx_log' = rx_log
            /\ filtered_data' =
                 Append(filtered_data, from_le_bytes(rx_log[Len(rx_log)]))]_vars
    /\ [][(rx_pc = "done" /\ state' = "Connected") =>
            (rx_pc' = "done" /\ rx_log' = rx_log /\ filtered_data' = filtered_data)]_vars

\* C15 witness: the receiver read a float and then the sentinel, and ended
\* with the float alone in the buffer.
C15_Witness ==
    /\ rx_pc = "done" /\ rx_log = << << 0, 0, 0, 63 >>, SentinelBytes >>
    /\ filtered_data = << 1056964608 >>

\* C16: the receiver's steps do not depend on the token: while it is in its
\* loop a read can return a frame or fail, and a frame read can be pushed,
\* whatever the token holds, a step that sets the token leaves the
\* receiver's position, the frames it has read and the buffer as they were,
\* and the receiver leaves its loop only in a step that read the sentinel or
\* in a failed read.
C16_ReceiverIgnoresToken ==
    /\ []((rx_pc = "read" /\ ~crashed) =>
            /\ ENABLED RxReadErr
            /\ Len(rx_log) < MaxReads => ENABLED RxRead)
    /\ []((rx_pc = "push" /\ ~crashed) => ENABLED RxPush)
    /\ [][(cancellation_token' # cancellation_token /\ rx_pc # "unspawned"
           /\ state' = "Connected") =>
            (rx_pc' = rx_pc /\ rx_log' = rx_log /\ filtered_data' = filtered_data)]_vars
    /\ [][(rx_pc \in {"read", "push"} /\ rx_pc' = "done") =>
            /\ rx_pc = "read"
            /\ \/ rx_log' = Append(rx_log, SentinelBytes)
               \/ (RxReadErr /\ rx_log' = rx_log)]_vars

\* C16 witness: Finish has set the token and joined the transmitter, and is
\* waiting for a receiver that is still in its loop with two floats read.
C16_Witness ==
    /\ cancellation_token = "true" /\ ui = "finish_join_rx" /\ tx_pc = "done"
    /\ rx_pc = "read" /\ Len(filtered_data) = 2

\* Some write_all call of the transmitter has returned an error.
WriteFailed == \E j \in 1..Len(tx_log) : ~tx_log[j].ok

\* C17: a step in which a transmitter write fails changes nothing of the
\* receiver, and the receiver can go on reading afterwards; a step in which
\* the receiver ends changes nothing of the transmitter, which afterwards
\* still writes its next sample unless the token is set; neither step changes
\* the token, the session state or the handshake.
C17_FailureStaysInWorker ==
    /\ [][(Len(tx_log') = Len(tx_log) + 1 /\ ~tx_log'[Len(tx_log')].ok) =>
            /\ UNCHANGED << rx_pc, rx_log, filtered_data >>
            /\ UNCHANGED << cancellation_token, state, app_state, handshake,
                            receiver, transmitter >>
            /\ state = "Connected"]_vars
    /\ [][(rx_pc = "read" /\ rx_pc' = "done") =>
            /\ UNCHANGED << tx_pc, tx_i, tx_loaded, tx_log >>
            /\ UNCHANGED << cancellation_token, state, app_state, handshake,
                            receiver, transmitter >>
            /\ state = "Connected"]_vars
    /\ []((WriteFailed /\ rx_pc = "read" /\ ~crashed) =>
            /\ ENABLED RxReadErr
            /\ Len(rx_log) < MaxReads => ENABLED RxRead)
    /\ []((rx_pc = "done" /\ ~crashed) =>
            /\ tx_pc = "write" => ENABLED TxWrite
            /\ (tx_pc = "check" /\ tx_i < N /\ cancellation_token = "false") =>
                 ENABLED (TxCheck /\ tx_pc' = "write"))

\* C17 witness: the receiver's first read failed, the token was never set,
\* and the transmitter wrote both samples and the sentinel; the session is
\* still Connected with both handles held.
C17_Witness ==
    /\ state = "Connected" /\ cancellation_token = "false"
    /\ rx_pc = "done" /\ rx_log = << >>
    /\ N = 2 /\ Len(PayloadWrites) = 2 /\ tx_pc = "done" /\ AllWritesOk
    /\ receiver = "Some" /\ transmitter = "Some"

\* C18: Finish in a Connected session that holds its handles stores true in
\* the token in the step that takes the transmitter's handle, so the token is
\* set during both joins; the transmitter is joined first, with the receiver's
\* handle still held, and the receiver only once the transmitter has ended;
\* with the workers and the UI thread scheduled fairly, both joins return and
\* the session is back at port selection, each worker joined once.
C18_FinishCancelsThenJoins ==
    /\ [][(Finish /\ state = "Connected" /\ transmitter = "Some") =>
            /\ cancellation_token' = "true"
            /\ ui' = "finish_join_tx"
            /\ join_calls' = [tx |-> 1, rx |-> 0]]_vars
    /\ [](ui \in {"finish_join_tx", "finish_join_rx"} => cancellation_token = "true")
    /\ [](ui = "finish_join_tx" =>
            (transmitter = "None" /\ receiver = "Some" /\ join_calls = [tx |-> 1, rx |-> 0]))
    /\ [](ui = "finish_join_rx" =>
            (tx_pc = "done" /\ receiver = "None" /\ join_calls = [tx |-> 1, rx |-> 1]))
    /\ [][ui = "finish_join_tx" => ui' \in {"finish_join_tx", "finish_join_rx"}]_vars
    /\ [][(ui = "finish_join_rx" /\ ui' # "finish_join_rx") =>
            (app_state' = "Ports" /\ ui' = "idle")]_vars
    /\ (ui \in {"finish_join_tx", "finish_join_rx"}) ~>
          (app_state = "Ports" /\ ui = "idle" /\ join_calls = [tx |-> 1, rx |-> 1])

\* C18 witness: Finish was issued after one of two samples had been written;
\* the transmitter loaded the set token, wrote the sentinel and was joined,
\* and the join of the receiver, which has ended, is about to return.
C18_Witness ==
    /\ ui = "finish_join_rx" /\ cancellation_token = "true"
    /\ N = 2 /\ Len(PayloadWrites) = 1 /\ tx_loaded = << FALSE, TRUE >>
    /\ tx_pc = "done" /\ rx_pc = "done"
    /\ join_calls = [tx |-> 1, rx |-> 1]

\* The receiver has ended on a failed read: not after reading the sentinel.
ReadFailed ==
    rx_pc = "done" /\ (rx_log = << >> \/ rx_log[Len(rx_log)] # SentinelBytes)

\* Both handles of a Connected session have been reclaimed.
Reclaimed ==
    /\ state = "Connected" /\ ui = "idle"
    /\ receiver = "None" /\ transmitter = "None"

\* C19: a transmitter that ended with the token never set and no write
\* failed has written all N samples and then the sentinel; a receiver that
\* ended without a failed read ended in the step that read the sentinel; and
\* a Connected session in which the token is never set and no write or read
\* fails eventually has both handles reclaimed by Refresh.
C19_NaturalTermination ==
    /\ []((tx_pc = "done" /\ cancellation_token = "false" /\ ~WriteFailed) =>
            /\ Len(PayloadWrites) = N
            /\ Len(tx_log) = N + 1
            /\ tx_log[N + 1].bytes = SentinelBytes)
    /\ []((rx_pc = "done" /\ ~ReadFailed) => rx_log[Len(rx_log)] = SentinelBytes)
    /\ [][(state = "Connected" /\ receiver = "Some" /\ receiver' = "None"
           /\ cancellation_token' = "false") =>
            (Refresh /\ rx_pc = "done" /\ transmitter' = "None")]_vars
    /\ (state = "Connected" /\ receiver = "Some") ~>
          (Reclaimed \/ cancellation_token # "false" \/ WriteFailed \/ ReadFailed)

\* The same with the runs in which the application panics set aside.
C19_NaturalTerminationUnlessPanic ==
    (state = "Connected" /\ receiver = "Some") ~>
        (Reclaimed \/ cancellation_token # "false" \/ WriteFailed \/ ReadFailed
           \/ crashed)

\* The state C19 is about: the token was never set, no write and no read
\* failed, both samples and the sentinel were written, the receiver read the
\* sentinel, and Refresh has reclaimed both handles.
C19_ReclaimedState ==
    /\ Reclaimed /\ cancellation_token = "false" /\ ~crashed
    /\ N = 2 /\ Len(PayloadWrites) = 2 /\ AllWritesOk
    /\ rx_pc = "done" /\ ~ReadFailed
    /\ join_calls = [tx |-> 1, rx |-> 1]

\* C20: Refresh takes and joins the handles only when the receiver has ended;
\* while Refresh waits in a join the transmitter has ended too or sends none
\* of its remaining samples; and a Refresh that finds the receiver running
\* leaves the handles and the rest of the session as they were.
C20_RefreshNeverWaits ==
    /\ [][(Refresh /\ receiver = "Some" /\ receiver' = "None") => rx_pc = "done"]_vars
    /\ [](ui = "refresh_join_tx" =>
            (tx_pc \in {"eot", "done"} \/ (tx_pc = "check" /\ tx_i = N)))
    /\ [][ui = "refresh_join_tx" => Len(PayloadWrites') = Len(PayloadWrites)]_vars
    /\ [][(Refresh /\ state = "Connected" /\ rx_pc # "done") =>
            UNCHANGED << session_vars, state, app_state, ui, join_calls, tx_vars,
                         rx_vars, exported, crashed >>]_vars

\* The half of C20 about a receiver that has not ended: such a Refresh
\* changes nothing but the delivered tick.
C20_RefreshWhileReading ==
    [][(Refresh /\ state = "Connected" /\ rx_pc # "done") =>
         UNCHANGED << session_vars, state, app_state, ui, join_calls, tx_vars,
                      rx_vars, exported, crashed >>]_vars

\* The state in which C20 fails: Refresh is blocked in tx.join() after the
\* receiver's first read timed out, while the transmitter, never cancelled,
\* still has both of its samples to send.
C20_BlockedOnTransmitter ==
    /\ ui = "refresh_join_tx" /\ cancellation_token = "false"
    /\ rx_pc = "done" /\ rx_log = << >>
    /\ N = 2 /\ tx_log = << >> /\ tx_pc \in {"check", "write"}

\* C21: the Refresh subscription runs only in a Connected session; whenever
\* the UI thread is between two messages (the runtime asks for the
\* subscription after each update) it runs exactly if the session is
\* Connected and holds a worker handle; and once both handles are reclaimed
\* it does not run again in that session.
C21_TickWhileHandles ==
    /\ [](ticking => (app_state = "Filter" /\ state = "Connected"))
    /\ [](state \in {"Connecting", "Errored", "none"} => ~ticking)
    /\ [](ui = "idle" =>
            (ticking <=> (state = "Connected"
                          /\ (receiver = "Some" \/ transmitter = "Some"))))
    /\ [][(Reclaimed /\ state' = "Connected") => (~ticking /\ ~ticking')]_vars

\* C21 witness: a session whose receiver read the sentinel and whose handles
\* Refresh reclaimed; the tick that ran while the handles were held is off.
C21_Witness ==
    /\ Reclaimed /\ ~ticking /\ ~crashed
    /\ rx_log = << SentinelBytes >> /\ tx_pc = "done"
    /\ join_calls = [tx |-> 1, rx |-> 1]

\* The steps of the UI thread inside a Connected session.
UiStep ==
    \/ Refresh \/ RefreshJoinTx \/ Finish \/ FinishJoinTx \/ FinishJoinRx
    \/ GraphSwitchMode \/ GraphSizeUpdated \/ GraphOffsetUpdated
    \/ ViewStaticEmpty \/ ChartDraw \/ ChartBegin \/ ChartEnd \/ Export

\* Within a session the buffer changes only by the receiver appending the
\* float of the frame it has just read; no step of the UI thread changes it;
\* once both handles are reclaimed it never changes again, and two
\* successful exports of one session write the same output.
BufferFrame ==
    /\ [][(state = "Connected" /\ state' = "Connected"
           /\ filtered_data' # filtered_data) =>
            /\ RxPush
            /\ filtered_data' =
                 Append(filtered_data, from_le_bytes(rx_log[Len(rx_log)]))]_vars
    /\ [][(UiStep /\ state' = "Connected") => filtered_data' = filtered_data]_vars
    /\ [][(Reclaimed /\ state' = "Connected") => filtered_data' = filtered_data]_vars
    /\ [][(exported # << >> /\ exported' # << >>) =>
            exported'[1].output = exported[1].output]_vars

\* C22 as stated: the buffer is modified only by the receiver's append,
\* Refresh, Finish, Graph messages, the chart and Export leave it unchanged,
\* it never changes once both handles are reclaimed, and a reader holds the
\* lock only for a length query or a snapshot.
C22_BufferOnlyReceiver ==
    /\ BufferFrame
    /\ [](lock_use \in {"none", "len", "snapshot"})

\* C22 amended: the same frame, with the lock as the code holds it: the only
\* reader that keeps the lock between steps is build_chart, which keeps it
\* for the whole draw, and while it does the receiver appends nothing (a
\* frame it reads meanwhile waits for the end of the draw).
C22_BufferOnlyReceiverAmended ==
    /\ BufferFrame
    /\ [](lock_use \in {"none", "draw"})
    /\ [][lock_use = "draw" => filtered_data' = filtered_data]_vars
    /\ [][(lock_use = "draw" /\ lock_use' # "draw") => ChartEnd]_vars

\* C22 witness: a draw holds the lock of a buffer of one sample while the
\* receiver, which has read a second frame, waits to push it.
C22_Witness ==
    /\ lock_use = "draw" /\ rx_pc = "push" /\ Len(rx_log) = 2
    /\ Len(filtered_data) = 1
    /\ N = 2 /\ Len(PayloadWrites) = 2

\* C23: SwitchMode in Streaming mode gives Static with size 32 and offset 0;
\* SwitchMode in Static mode gives Streaming, which carries no size and no
\* offset, so the next SwitchMode gives Static (32, 0) again whatever the
\* size and offset were; SwitchMode changes nothing else of the session.
C23_SwitchModeResets ==
    /\ [](mode.tag = "Streaming" => mode = [tag |-> "Streaming", size |-> 0, offset |-> 0])
    /\ [][GraphSwitchMode =>
            /\ mode.tag = "Streaming" =>
                 mode' = [tag |-> "Static", size |-> 32, offset |-> 0]
            /\ mode.tag = "Static" =>
                 /\ mode' = [tag |-> "Streaming", size |-> 0, offset |-> 0]
                 /\ switch_mode(mode') = [tag |-> "Static", size |-> 32, offset |-> 0]
            /\ UNCHANGED << unfiltered_data, filtered_data, cancellation_token,
                            receiver, transmitter, state >>]_vars
    /\ [][(mode.tag # mode'.tag /\ state = "Connected" /\ state' = "Connected")
            => GraphSwitchMode]_vars

\* C23 witness: Static mode with a size and an offset moved away from
\* (32, 0) by the sliders, from which SwitchMode leads back to Streaming.
C23_Witness ==
    /\ state = "Connected" /\ ui = "idle" /\ ~crashed
    /\ mode.tag = "Static" /\ mode.size = 1 /\ mode.offset = 32

MessageStep ==
    \/ PortSelected \/ StopTimeUpdated \/ FunctionUpdated \/ EvaluateFunction
    \/ RefreshPorts \/ StartFiltering \/ UpdateUnreachable
    \/ ConnectionFailed \/ ConnectionEstablished
    \/ Finish \/ Refresh \/ Export
    \/ GraphSwitchMode \/ GraphSizeUpdated \/ GraphOffsetUpdated

\* C25: no message is delivered to a state that cannot accept it: a Refresh
\* tick in flight always finds a Connected session, with the transmitter's
\* handle present whenever the receiver's is, a RefreshPorts tick in flight
\* finds the port screen, a widget message waiting in its batch finds the
\* screen it was published on, Export finds both handles absent, a slider
\* message finds Static mode, Finish never finds Connecting, and no delivery
\* of a message panics.
C25_NoUnreachableArm ==
    /\ [](queued => (app_state = "Filter" /\ state = "Connected"))
    /\ [](ports_queued => app_state = "Ports")
    /\ [](pending # NoMessage => Screen(pending) = app_state)
    /\ []((queued /\ receiver = "Some" /\ ui = "idle") => transmitter = "Some")
    /\ [][MessageStep => ~crashed']_vars
    /\ [][Export => (receiver = "None" /\ transmitter = "None")]_vars
    /\ [][(GraphSizeUpdated \/ GraphOffsetUpdated) => mode.tag = "Static"]_vars
    /\ [][Finish => state # "Connecting"]_vars

\* The state in which C25 fails: Finish has returned to port selection with
\* a Refresh tick still in flight.
C25_TickAfterFinish ==
    /\ app_state = "Ports" /\ state = "none" /\ queued /\ ~crashed
    /\ join_calls = [tx |-> 1, rx |-> 1]

\* Another state in which C25 fails: StartFiltering has replaced the port
\* screen by a Filter with a RefreshPorts tick of the screen's timer still in
\* flight.
C25_PortsTickAfterStart ==
    /\ app_state = "Filter" /\ state = "Connecting" /\ ports_queued /\ ~crashed

\* Another state in which C25 fails: Finish has returned to port selection
\* and a second Finish, pressed on the same view, is next in the batch.
C25_FinishTwice ==
    /\ app_state = "Ports" /\ pending = Msg("Finish") /\ ~crashed
    /\ join_calls = [tx |-> 1, rx |-> 1]

\* Another: the port screen has been replaced by a Filter and a
\* FunctionUpdated of the port screen is next in the batch.
C25_PortsMessageAfterStart ==
    /\ app_state = "Filter" /\ state = "Connecting" /\ ~crashed
    /\ pending = Msg("FunctionUpdated")

\* Another: SwitchMode has left Static mode and a SizeUpdated of the sliders
\* it removed is next in the batch.
C25_SliderAfterSwitchMode ==
    /\ state = "Connected" /\ mode.tag = "Streaming" /\ ~crashed
    /\ pending = Msg("SizeUpdated")

\* Another: a scan has dropped the selection and the Filter message of the
\* "Start filtering" button it disabled is next in the batch.
C25_FilterAfterRefreshPorts ==
    /\ app_state = "Ports" /\ ports.selected_port = << >> /\ ~crashed
    /\ pending = Msg("Filter")

\* Another: an empty scan has cleared the list, the PortSelected(1) of a
\* radio it removed has been handled after it, and the function is
\* validated: "Start filtering" is offered with the index past the list.
C25_IndexPastList ==
    /\ app_state = "Ports" /\ ~crashed /\ pending = NoMessage
    /\ ports.selected_port = << 1 >> /\ ports.available_ports = << >>
    /\ ports.validated

\* The window build_chart computes in the current state.
CurrentWindow == build_chart_window(mode, Len(filtered_data))

\* C26: whenever the view of a Connected session is built, a non-empty
\* buffer gives a window with 0 <= start <= end <= total-1 and end <= N-1,
\* N being the length of the input series and of the time vector, and in
\* Static mode the buffer holds at least one sample.
C26_ChartInBounds ==
    (state = "Connected" /\ ui = "idle" /\ ~crashed) =>
        /\ Len(filtered_data) # 0 =>
             /\ 0 <= CurrentWindow.start
             /\ CurrentWindow.start <= CurrentWindow.end
             /\ CurrentWindow.end <= Len(filtered_data) - 1
             /\ CurrentWindow.end <= N - 1
             /\ CurrentWindow.end <= Len(time) - 1
        /\ mode.tag = "Static" => Len(filtered_data) >= 1

\* The window half with the buffer within the series and the time vector
\* (the bound C3 states), the offset within the buffer and a size that
\* start + size does not overflow with.
C26_WindowHalfWithinN ==
    (state = "Connected" /\ ui = "idle" /\ ~crashed /\ Len(filtered_data) # 0
     /\ Len(filtered_data) <= N /\ Len(filtered_data) <= Len(time)
     /\ (mode.tag = "Static" => mode.offset <= Len(filtered_data) - 1)
     /\ ~build_chart_overflows(mode, Len(filtered_data))) =>
        /\ 0 <= CurrentWindow.start
        /\ CurrentWindow.start <= CurrentWindow.end
        /\ CurrentWindow.end <= Len(filtered_data) - 1
        /\ CurrentWindow.end <= N - 1
        /\ CurrentWindow.end <= Len(time) - 1
        /\ chart_in_bounds(CurrentWindow, Len(time), N, Len(filtered_data))

====
